---- MODULE Spec2Model ----
(***************************************************************************)
(* Model of the medical note template system (medical_note_template.py):   *)
(* the field store of MedicalNoteTemplate, its validator, the three        *)
(* renderers (Consult, Handoff, Operative) and the create_template factory *)
(***************************************************************************)
EXTENDS Naturals, Sequences, FiniteSets, TLC

VARIABLES
    cls,            \* class name of the template, "" before construction
    fields,         \* self.fields: a Python dict, kept in insertion order
    created_date,   \* self.created_date, in clock ticks
    last_modified,  \* self.last_modified, in clock ticks
    clock,          \* the wall clock read by datetime.now(), in ticks
    ret,            \* the last call: its name, arguments and outcome
    snap            \* the dict of an earlier export_to_dict() the caller holds

vars == <<cls, fields, created_date, last_modified, clock, ret, snap>>

----------------------------------------------------------------------------
(* Bounds of the model *)

\* the wall clock runs from 0 to MaxClock ticks
MaxClock == 1
\* longest list stored in a field
MaxItems == 2
\* most keys the stateful specification stores in one template
MaxStored == 2

\* clock ticks in one minute, the resolution of strftime('%Y-%m-%d %H:%M')
TicksPerMinute == 1

----------------------------------------------------------------------------
(* Python values: str, list of str, None *)

None == [t |-> "none", s |-> "", l |-> <<>>]
Str(s) == [t |-> "str", s |-> s, l |-> <<>>]
List(l) == [t |-> "list", s |-> "", l |-> l]

\* bool(v): None, '' and [] are falsy
Truthy(v) ==
    \/ v.t = "str" /\ v.s # ""
    \/ v.t = "list" /\ v.l # <<>>

\* isinstance(v, list)
IsList(v) == v.t = "list"

RECURSIVE JoinStr(_, _)
\* sep.join(parts) for a list of strings
JoinStr(sep, parts) ==
    IF parts = <<>> THEN ""
    ELSE IF Len(parts) = 1 THEN parts[1]
    ELSE parts[1] \o sep \o JoinStr(sep, Tail(parts))

\* repr(s) of a string without quotes or escapes in it
PyRepr(s) == "'" \o s \o "'"

\* str(v), what an f-string writes for {v}
PyStr(v) ==
    IF v.t = "str" THEN v.s
    ELSE IF v.t = "list"
         THEN "[" \o JoinStr(", ", [i \in 1..Len(v.l) |-> PyRepr(v.l[i])]) \o "]"
         ELSE "None"

RECURSIVE Repeat(_, _)
\* c * n
Repeat(c, n) == IF n = 0 THEN "" ELSE c \o Repeat(c, n - 1)

----------------------------------------------------------------------------
(* Python dict: a sequence of [k, v] entries in insertion order *)

EmptyDict == <<>>

DictKeys(d) == {d[i].k : i \in 1..Len(d)}

\* k in d
DictHas(d, k) == \E i \in 1..Len(d) : d[i].k = k

\* d[k], for k in d
DictItem(d, k) == d[CHOOSE i \in 1..Len(d) : d[i].k = k].v

\* d.get(k, default)
DictGet(d, k, default) == IF DictHas(d, k) THEN DictItem(d, k) ELSE default

\* d[k] = v: an existing key keeps its position, a new key goes last
DictSet(d, k, v) ==
    IF DictHas(d, k)
    THEN [i \in 1..Len(d) |-> IF d[i].k = k THEN [k |-> k, v |-> v] ELSE d[i]]
    ELSE Append(d, [k |-> k, v |-> v])

\* an update that replaces the dict by m
DictReplace(d, m) == m

\* an update that leaves the keys d already holds as they are
DictUpdateKeepExisting(d, m) ==
    LET new(e) == ~DictHas(d, e.k)
    IN  d \o SelectSeq(m, new)

RECURSIVE DictUpdate(_, _)
\* d.update(m): the entries of m are assigned in m's order
DictUpdate(d, m) ==
    IF m = <<>> THEN d
    ELSE DictUpdate(DictSet(d, m[1].k, m[1].v), Tail(m))

\* d.copy(): a new dict with the same entries
DictCopy(d) == [i \in 1..Len(d) |-> d[i]]

\* d1 == d2: the same keys with the same values, in any order
DictEq(d1, d2) ==
    /\ DictKeys(d1) = DictKeys(d2)
    /\ \A k \in DictKeys(d1) : DictItem(d1, k) = DictItem(d2, k)

----------------------------------------------------------------------------
(* datetime *)

\* datetime.isoformat(): the full resolution of the clock
Isoformat(t) == "T" \o ToString(t)

\* datetime.strftime('%Y-%m-%d %H:%M'): the seconds are dropped
Strftime(t) == "M" \o ToString(t \div TicksPerMinute)

----------------------------------------------------------------------------
(* The three template classes and their field lists *)

ConsultNoteTemplate == "ConsultNoteTemplate"
EpicHandoffTemplate == "EpicHandoffTemplate"
OperativeReportTemplate == "OperativeReportTemplate"

Classes == {ConsultNoteTemplate, EpicHandoffTemplate, OperativeReportTemplate}

ConsultRequiredFields ==
    << "patient_name", "patient_mrn", "date_of_consult", "consulting_service",
       "reason_for_consult", "history_of_present_illness", "assessment",
       "recommendations" >>

ConsultOptionalFields ==
    << "patient_dob", "age", "sex", "referring_provider",
       "past_medical_history", "past_surgical_history", "medications",
       "allergies", "social_history", "family_history", "review_of_systems",
       "physical_exam", "labs", "imaging", "other_studies",
       "differential_diagnosis", "plan", "follow_up", "attending_physician",
       "consulting_physician" >>

HandoffRequiredFields ==
    << "patient_name", "patient_mrn", "patient_location", "primary_diagnosis",
       "active_issues" >>

HandoffOptionalFields ==
    << "age", "sex", "admission_date", "hospital_day", "brief_history",
       "past_medical_history", "code_status", "allergies", "vital_signs",
       "key_labs", "key_imaging", "current_medications", "iv_fluids", "diet",
       "activity", "lines_tubes_drains", "pending_studies",
       "pending_consults", "to_do_list", "if_then_scenarios",
       "anticipated_discharge_date", "discharge_planning",
       "family_communication", "handoff_from", "handoff_to" >>

\* the required fields of the operative report without 'surgeon'
OperativeRequiredFieldsShort ==
    << "patient_name", "patient_mrn", "date_of_surgery",
       "preoperative_diagnosis", "postoperative_diagnosis",
       "procedure_performed", "anesthesia_type", "operative_findings",
       "description_of_procedure", "estimated_blood_loss", "specimens",
       "complications", "disposition" >>

OperativeRequiredFields ==
    << "patient_name", "patient_mrn", "date_of_surgery",
       "preoperative_diagnosis", "postoperative_diagnosis",
       "procedure_performed", "surgeon", "anesthesia_type",
       "operative_findings", "description_of_procedure",
       "estimated_blood_loss", "specimens", "complications", "disposition" >>

OperativeOptionalFields ==
    << "patient_dob", "age", "sex", "indication", "assistant_surgeon",
       "attending_surgeon", "anesthesiologist", "nurses", "start_time",
       "end_time", "total_time", "ivf_given", "urine_output", "drains",
       "implants", "counts_correct", "pathology", "condition",
       "follow_up_plan" >>

\* self.get_required_fields(), dispatched on the class
get_required_fields(c) ==
    IF c = ConsultNoteTemplate THEN ConsultRequiredFields
    ELSE IF c = EpicHandoffTemplate THEN HandoffRequiredFields
    ELSE OperativeRequiredFields

\* self.get_optional_fields(), dispatched on the class
get_optional_fields(c) ==
    IF c = ConsultNoteTemplate THEN ConsultOptionalFields
    ELSE IF c = EpicHandoffTemplate THEN HandoffOptionalFields
    ELSE OperativeOptionalFields

----------------------------------------------------------------------------
(* MedicalNoteTemplate: the methods of the base class, as functions of the *)
(* dict f = self.fields                                                    *)

\* an outcome: the value returned, or the exception raised
Returns(v) == [raised |-> "", value |-> v]
Raises(e, msg) == [raised |-> e, value |-> msg]

\* a lookup written "self.fields.get(field_name) or default"
GetFieldOrDefault(f, field_name, default) ==
    IF Truthy(DictGet(f, field_name, None))
    THEN DictGet(f, field_name, None)
    ELSE default

\* self.fields.get(field_name, default)
GetField(f, field_name, default) == DictGet(f, field_name, default)

\* self.fields[field], which raises KeyError for a key that is not stored
Subscript(f, field) ==
    IF DictHas(f, field) THEN Returns(DictItem(f, field))
    ELSE Raises("KeyError", field)

\* a validator that subscripts the dict without the membership test
IsMissingSubscriptOnly(f, field) ==
    LET item == Subscript(f, field)
    IN  IF item.raised # "" THEN item ELSE Returns(~Truthy(item.value))

\* a validator that takes only an absent field for a missing one
IsMissingAbsentOnly(f, field) == Returns(~DictHas(f, field))

\* field not in self.fields or not self.fields[field]
\* ("or" evaluates its right side only when the left side is false)
IsMissing(f, field) ==
    IF ~DictHas(f, field) THEN Returns(TRUE)
    ELSE LET item == Subscript(f, field)
         IN  IF item.raised # "" THEN item ELSE Returns(~Truthy(item.value))

RECURSIVE ValidateLoop(_, _, _)
\* the loop of validate() over the required fields still to visit
ValidateLoop(f, todo, missing_fields) ==
    IF todo = <<>> THEN Returns(<<Len(missing_fields) = 0, missing_fields>>)
    ELSE LET m == IsMissing(f, Head(todo))
         IN  IF m.raised # "" THEN m
             ELSE ValidateLoop(f, Tail(todo),
                               IF m.value THEN Append(missing_fields, Head(todo))
                               ELSE missing_fields)

\* a validator that also reports the stored names the class does not declare
ValidateKnownOnly(c, f) ==
    LET declared == get_required_fields(c) \o get_optional_fields(c)
        unknown(e) == \A i \in 1..Len(declared) : declared[i] # e.k
        extra == SelectSeq(f, unknown)
    IN  ValidateLoop(f, get_required_fields(c),
                     [i \in 1..Len(extra) |-> extra[i].k])

\* validate(): (is_valid, list_of_missing_fields)
Validate(c, f) == ValidateLoop(f, get_required_fields(c), <<>>)

\* export_to_dict()
ExportToDict(c, f, created, modified) ==
    [ template_type |-> c,
      created_date  |-> Isoformat(created),
      last_modified |-> Isoformat(modified),
      fields        |-> DictCopy(f) ]

----------------------------------------------------------------------------
(* Rendered text: a note is a sequence of lines, each the literal text the *)
(* code writes followed by the value it formats into the line              *)

NotProvided == "[NOT PROVIDED]"

\* width of the rule lines
RuleWidth == 80

Lit(text) == [lit |-> text, val |-> ""]
Fmt(prefix, v) == [lit |-> prefix, val |-> PyStr(v)]
Blank == Lit("")
\* a rule line one character short
RuleShort(c) == Lit(Repeat(c, RuleWidth - 1))
Rule(c) == Lit(Repeat(c, RuleWidth))

\* the text of a line
LineText(line) == line.lit \o line.val

\* _format_section(title, content, indent)
format_section(title, content, indent) ==
    IF ~Truthy(content) THEN <<>>
    ELSE LET indent_str == Repeat(" ", indent)
         IN  << Lit(indent_str \o title \o ":"),
                Fmt(indent_str, content),
                Blank >>

\* a list section whose items are joined into one line
format_list_section_one_line(title, items, indent) ==
    IF ~Truthy(items) THEN <<>>
    ELSE LET indent_str == Repeat(" ", indent)
         IN  << Lit(indent_str \o title \o ":"),
                [lit |-> indent_str,
                 val |-> JoinStr(", ", [i \in 1..Len(items.l) |->
                                          "- " \o items.l[i]])],
                Blank >>

\* _format_list_section(title, items, indent), for a list items
format_list_section(title, items, indent) ==
    IF ~Truthy(items) THEN <<>>
    ELSE LET indent_str == Repeat(" ", indent)
         IN  << Lit(indent_str \o title \o ":") >>
             \o [i \in 1..Len(items.l) |->
                    [lit |-> indent_str \o "- ", val |-> items.l[i]]]
             \o << Blank >>

\* note += f"Label: {self.get_field(name, '[NOT PROVIDED]')}\n"
RequiredLine(f, label, name) ==
    << Fmt(label \o ": ", GetField(f, name, Str(NotProvided))) >>

\* an optional line written whenever the field is stored
OptionalLineIfStored(f, label, name) ==
    IF DictHas(f, name)
    THEN << Fmt(label \o ": ", GetField(f, name, None)) >>
    ELSE <<>>

\* if self.get_field(name): note += f"Label: {self.get_field(name)}\n"
OptionalLine(f, label, name) ==
    IF Truthy(GetField(f, name, None))
    THEN << Fmt(label \o ": ", GetField(f, name, None)) >>
    ELSE <<>>

\* note += self._format_section(title, self.get_field(name, '[NOT PROVIDED]'))
RequiredSection(f, title, name) ==
    format_section(title, GetField(f, name, Str(NotProvided)), 0)

\* if self.get_field(name): note += self._format_section(title, ...)
OptionalSection(f, title, name) ==
    IF Truthy(GetField(f, name, None))
    THEN format_section(title, GetField(f, name, None), 0)
    ELSE <<>>

\* a required list section read without the placeholder default
RequiredListSectionNoDefault(f, title, name) ==
    IF IsList(GetField(f, name, None))
    THEN format_list_section(title, GetField(f, name, None), 0)
    ELSE format_section(title, GetField(f, name, None), 0)

\* a required section that takes a list or a string
RequiredListSection(f, title, name) ==
    IF IsList(GetField(f, name, None))
    THEN format_list_section(title,
             GetField(f, name, List(<<NotProvided>>)), 0)
    ELSE format_section(title, GetField(f, name, Str(NotProvided)), 0)

\* an optional section that takes a list or a string
OptionalListSection(f, title, name) ==
    IF Truthy(GetField(f, name, None))
    THEN IF IsList(GetField(f, name, None))
         THEN format_list_section(title, GetField(f, name, None), 0)
         ELSE format_section(title, GetField(f, name, None), 0)
    ELSE <<>>

----------------------------------------------------------------------------
(* The renderers: f is self.fields, now is what datetime.now() returns *)

\* ConsultNoteTemplate.format_note()
ConsultFormatNote(f, now) ==
    << Rule("="), Lit("CONSULTATION NOTE"), Rule("="), Blank >>
    \o << Lit("PATIENT INFORMATION:") >>
    \o RequiredLine(f, "Name", "patient_name")
    \o RequiredLine(f, "MRN", "patient_mrn")
    \o OptionalLine(f, "DOB", "patient_dob")
    \o OptionalLine(f, "Age", "age")
    \o OptionalLine(f, "Sex", "sex")
    \o RequiredLine(f, "Date of Consult", "date_of_consult")
    \o RequiredLine(f, "Consulting Service", "consulting_service")
    \o OptionalLine(f, "Referring Provider", "referring_provider")
    \o << Blank >>
    \o RequiredSection(f, "REASON FOR CONSULT", "reason_for_consult")
    \o RequiredSection(f, "HISTORY OF PRESENT ILLNESS",
                       "history_of_present_illness")
    \o OptionalSection(f, "PAST MEDICAL HISTORY", "past_medical_history")
    \o OptionalSection(f, "PAST SURGICAL HISTORY", "past_surgical_history")
    \o OptionalListSection(f, "MEDICATIONS", "medications")
    \o OptionalSection(f, "ALLERGIES", "allergies")
    \o OptionalSection(f, "SOCIAL HISTORY", "social_history")
    \o OptionalSection(f, "FAMILY HISTORY", "family_history")
    \o OptionalSection(f, "REVIEW OF SYSTEMS", "review_of_systems")
    \o OptionalSection(f, "PHYSICAL EXAMINATION", "physical_exam")
    \o OptionalSection(f, "LABORATORY DATA", "labs")
    \o OptionalSection(f, "IMAGING", "imaging")
    \o OptionalSection(f, "OTHER STUDIES", "other_studies")
    \o RequiredSection(f, "ASSESSMENT", "assessment")
    \o OptionalListSection(f, "DIFFERENTIAL DIAGNOSIS",
                           "differential_diagnosis")
    \o RequiredListSection(f, "RECOMMENDATIONS", "recommendations")
    \o OptionalListSection(f, "PLAN", "plan")
    \o OptionalSection(f, "FOLLOW-UP", "follow_up")
    \o << Blank, Rule("-") >>
    \o OptionalLine(f, "Consulting Physician", "consulting_physician")
    \o OptionalLine(f, "Attending Physician", "attending_physician")
    \o << [lit |-> "Date: ", val |-> Strftime(now)] >>

\* EpicHandoffTemplate.format_note()
HandoffFormatNote(f, now) ==
    << Rule("="), Lit("HANDOFF NOTE"), Rule("="), Blank >>
    \o RequiredLine(f, "Patient", "patient_name")
    \o RequiredLine(f, "MRN", "patient_mrn")
    \o RequiredLine(f, "Location", "patient_location")
    \o OptionalLine(f, "Age", "age")
    \o OptionalLine(f, "Sex", "sex")
    \o OptionalLine(f, "Admission Date", "admission_date")
    \o OptionalLine(f, "Hospital Day", "hospital_day")
    \o OptionalLine(f, "Code Status", "code_status")
    \o << [lit |-> "Handoff Date/Time: ", val |-> Strftime(now)] >>
    \o OptionalLine(f, "From", "handoff_from")
    \o OptionalLine(f, "To", "handoff_to")
    \o << Blank >>
    \o RequiredSection(f, "PRIMARY DIAGNOSIS", "primary_diagnosis")
    \o OptionalSection(f, "BRIEF HISTORY", "brief_history")
    \o OptionalSection(f, "PAST MEDICAL HISTORY", "past_medical_history")
    \o OptionalSection(f, "ALLERGIES", "allergies")
    \o RequiredListSection(f, "ACTIVE ISSUES", "active_issues")
    \o OptionalSection(f, "VITAL SIGNS", "vital_signs")
    \o OptionalSection(f, "KEY LABS", "key_labs")
    \o OptionalSection(f, "KEY IMAGING", "key_imaging")
    \o OptionalListSection(f, "CURRENT MEDICATIONS", "current_medications")
    \o OptionalSection(f, "IV FLUIDS", "iv_fluids")
    \o OptionalSection(f, "DIET", "diet")
    \o OptionalSection(f, "ACTIVITY", "activity")
    \o OptionalListSection(f, "LINES/TUBES/DRAINS", "lines_tubes_drains")
    \o OptionalListSection(f, "PENDING STUDIES", "pending_studies")
    \o OptionalListSection(f, "PENDING CONSULTS", "pending_consults")
    \o OptionalListSection(f, "TO-DO LIST", "to_do_list")
    \o OptionalListSection(f, "IF-THEN SCENARIOS", "if_then_scenarios")
    \o OptionalSection(f, "ANTICIPATED DISCHARGE DATE",
                       "anticipated_discharge_date")
    \o OptionalSection(f, "DISCHARGE PLANNING", "discharge_planning")
    \o OptionalSection(f, "FAMILY COMMUNICATION", "family_communication")
    \o << Rule("=") >>

\* OperativeReportTemplate.format_note()
OperativeFormatNote(f, now) ==
    << Rule("="), Lit("OPERATIVE REPORT"), Rule("="), Blank >>
    \o << Lit("PATIENT INFORMATION:") >>
    \o RequiredLine(f, "Name", "patient_name")
    \o RequiredLine(f, "MRN", "patient_mrn")
    \o OptionalLine(f, "DOB", "patient_dob")
    \o OptionalLine(f, "Age", "age")
    \o OptionalLine(f, "Sex", "sex")
    \o RequiredLine(f, "Date of Surgery", "date_of_surgery")
    \o OptionalLine(f, "Start Time", "start_time")
    \o OptionalLine(f, "End Time", "end_time")
    \o OptionalLine(f, "Total Time", "total_time")
    \o << Blank >>
    \o << Lit("SURGICAL TEAM:") >>
    \o RequiredLine(f, "Surgeon", "surgeon")
    \o OptionalLine(f, "Assistant Surgeon", "assistant_surgeon")
    \o OptionalLine(f, "Attending Surgeon", "attending_surgeon")
    \o OptionalLine(f, "Anesthesiologist", "anesthesiologist")
    \o RequiredLine(f, "Anesthesia Type", "anesthesia_type")
    \o OptionalLine(f, "Nursing Staff", "nurses")
    \o << Blank >>
    \o RequiredSection(f, "PREOPERATIVE DIAGNOSIS", "preoperative_diagnosis")
    \o RequiredSection(f, "POSTOPERATIVE DIAGNOSIS", "postoperative_diagnosis")
    \o RequiredListSection(f, "PROCEDURE(S) PERFORMED", "procedure_performed")
    \o OptionalSection(f, "INDICATION", "indication")
    \o RequiredSection(f, "OPERATIVE FINDINGS", "operative_findings")
    \o RequiredSection(f, "DESCRIPTION OF PROCEDURE",
                       "description_of_procedure")
    \o << Lit("INTRAOPERATIVE DETAILS:") >>
    \o RequiredLine(f, "Estimated Blood Loss", "estimated_blood_loss")
    \o OptionalLine(f, "IV Fluids Given", "ivf_given")
    \o OptionalLine(f, "Urine Output", "urine_output")
    \o << Blank >>
    \o RequiredSection(f, "SPECIMENS", "specimens")
    \o OptionalSection(f, "PATHOLOGY", "pathology")
    \o OptionalSection(f, "DRAINS", "drains")
    \o OptionalSection(f, "IMPLANTS", "implants")
    \o OptionalSection(f, "COUNTS", "counts_correct")
    \o RequiredSection(f, "COMPLICATIONS", "complications")
    \o RequiredSection(f, "DISPOSITION", "disposition")
    \o OptionalSection(f, "CONDITION", "condition")
    \o OptionalSection(f, "FOLLOW-UP PLAN", "follow_up_plan")
    \o << Blank, Rule("-") >>
    \o RequiredLine(f, "Surgeon", "surgeon")
    \o OptionalLine(f, "Attending", "attending_surgeon")
    \o << [lit |-> "Date: ", val |-> Strftime(now)] >>

\* self.format_note(), dispatched on the class
FormatNote(c, f, now) ==
    IF c = ConsultNoteTemplate THEN ConsultFormatNote(f, now)
    ELSE IF c = EpicHandoffTemplate THEN HandoffFormatNote(f, now)
    ELSE OperativeFormatNote(f, now)

----------------------------------------------------------------------------
(* create_template: template type names are sequences of characters *)

\* the keys of the templates table, in the order the table is written
TemplateKeys ==
    << << "c", "o", "n", "s", "u", "l", "t" >>,
       << "h", "a", "n", "d", "o", "f", "f" >>,
       << "o", "p", "e", "r", "a", "t", "i", "v", "e" >> >>

\* templates[key], for a key of the table
TemplateClass(key) ==
    IF key = TemplateKeys[1] THEN ConsultNoteTemplate
    ELSE IF key = TemplateKeys[2] THEN EpicHandoffTemplate
    ELSE OperativeReportTemplate

\* the upper-case letters and their lower-case forms
UpperCase == << "A", "B", "C", "D", "E", "F", "G", "H", "I", "J", "K", "L", "M",
                "N", "O", "P", "Q", "R", "S", "T", "U", "V", "W", "X", "Y", "Z" >>
LowerCase == << "a", "b", "c", "d", "e", "f", "g", "h", "i", "j", "k", "l", "m",
                "n", "o", "p", "q", "r", "s", "t", "u", "v", "w", "x", "y", "z" >>

LowerChar(ch) ==
    IF \E i \in 1..Len(UpperCase) : UpperCase[i] = ch
    THEN LowerCase[CHOOSE i \in 1..Len(UpperCase) : UpperCase[i] = ch]
    ELSE ch

\* template_type.lower()
Lower(chars) == [i \in 1..Len(chars) |-> LowerChar(chars[i])]

\* the string made of the characters
StrOf(chars) == JoinStr("", chars)

\* the message of the ValueError
UnknownTypeMessage(template_type) ==
    "Unknown template type: " \o StrOf(template_type) \o ". "
    \o "Valid types are: "
    \o JoinStr(", ", [i \in 1..Len(TemplateKeys) |-> StrOf(TemplateKeys[i])])

\* a factory that looks the name up as it was passed
CreateTemplateCaseSensitive(template_type) ==
    IF ~\E i \in 1..Len(TemplateKeys) : TemplateKeys[i] = template_type
    THEN Raises("ValueError", UnknownTypeMessage(template_type))
    ELSE Returns(TemplateClass(template_type))

\* create_template(template_type): the class to instantiate, or ValueError
CreateTemplate(template_type) ==
    LET lowered == Lower(template_type)
    IN  IF ~\E i \in 1..Len(TemplateKeys) : TemplateKeys[i] = lowered
        THEN Raises("ValueError", UnknownTypeMessage(lowered))
        ELSE Returns(TemplateClass(lowered))

----------------------------------------------------------------------------
(* Inputs of the calls *)

\* template type names passed to create_template
TypeInputs ==
    { << "c", "o", "n", "s", "u", "l", "t" >>,
      << "C", "o", "n", "s", "u", "l", "t" >>,
      << "h", "a", "n", "d", "o", "f", "f" >>,
      << "H", "A", "N", "D", "O", "F", "F" >>,
      << "o", "p", "e", "r", "a", "t", "i", "v", "e" >>,
      << "O", "p", "e", "r", "a", "t", "i", "v", "E" >>,
      << "f", "o", "o" >>,
      << "F", "o", "o" >>,
      << >> }

ItemPool == << "A", "B", "C", "D" >>
Items(n) == SubSeq(ItemPool, 1, n)

\* field values: the empty and a non-empty string, lists of 0..MaxItems items
AllValues ==
    {Str(""), Str("Jane Smith")} \cup {List(Items(n)) : n \in 0..MaxItems}

\* the values the calls of the stateful specification store: the empty and
\* a non-empty string, and the longest list
Values == {Str(""), Str("Jane Smith"), List(Items(MaxItems))}

\* defaults passed to get_field
Defaults == {None, Str("dflt")}

\* the required field of class c that takes a list or a string
ListField(c) ==
    IF c = ConsultNoteTemplate THEN "recommendations"
    ELSE IF c = EpicHandoffTemplate THEN "active_issues"
    ELSE "procedure_performed"

\* field names passed to set_field and get_field: a required line, a
\* required list section, and a name the class does not declare
FieldInputs(c) == {"patient_name", ListField(c), "custom_note"}

\* dicts passed to set_multiple_fields: the empty dict and two entries
BulkInputs(c) ==
    {EmptyDict} \cup
    { << [k |-> a, v |-> Str("Jane Smith")],
         [k |-> b, v |-> List(Items(MaxItems))] >> :
      <<a, b>> \in {p \in FieldInputs(c) \X FieldInputs(c) : p[1] # p[2]} }

----------------------------------------------------------------------------
(* The calls *)

\* a call: its name, the field or type name and the value or default it was
\* passed, the clock value it read (0 for a call that reads no clock), the
\* exception it raised ("" for none) and the value it returned
Call(op, name, arg, now, outcome) ==
    [ op |-> op, name |-> name, arg |-> arg, now |-> now,
      raised |-> outcome.raised, value |-> outcome.value ]

NoCall == Call("", "", None, 0, Returns(None))

\* the caller holds no exported dict
NoSnapshot ==
    [ held |-> FALSE, alias |-> FALSE,
      value |-> [ template_type |-> "", created_date |-> "",
                  last_modified |-> "", fields |-> EmptyDict ] ]

Init ==
    /\ cls = ""
    /\ fields = EmptyDict
    /\ created_date = 0
    /\ last_modified = 0
    /\ clock = 0
    /\ ret = NoCall
    /\ snap = NoSnapshot

\* time passes
Tick ==
    /\ clock < MaxClock
    /\ clock' = clock + 1
    /\ UNCHANGED <<cls, fields, created_date, last_modified, ret>>

\* create_template(template_type), then __init__ of the class: the two
\* timestamps are two readings of the clock
create_template(template_type) ==
    /\ cls = ""
    /\ LET made == CreateTemplate(template_type)
       IN  /\ ret' = Call("create_template", StrOf(template_type), None, clock,
                          IF made.raised # "" THEN made ELSE Returns(None))
           /\ IF made.raised # ""
              THEN UNCHANGED <<cls, fields, created_date, last_modified, clock>>
              ELSE /\ cls' = made.value
                   /\ fields' = EmptyDict
                   /\ created_date' = clock
                   /\ \E t \in clock..MaxClock :
                         /\ last_modified' = t
                         /\ clock' = t

\* set_field(field_name, value)
set_field(field_name, value) ==
    /\ cls # ""
    /\ DictHas(fields, field_name) \/ Len(fields) < MaxStored
    /\ fields' = DictSet(fields, field_name, value)
    /\ last_modified' = clock
    /\ ret' = Call("set_field", field_name, value, clock, Returns(None))
    /\ UNCHANGED <<cls, created_date, clock>>

\* a lookup that stores the default it returns (dict.setdefault)
get_field_setdefault(field_name, default) ==
    /\ cls # ""
    /\ ret' = Call("get_field", field_name, default, 0,
                   Returns(GetField(fields, field_name, default)))
    /\ fields' = IF DictHas(fields, field_name) THEN fields
                 ELSE DictSet(fields, field_name, default)
    /\ UNCHANGED <<cls, created_date, last_modified, clock>>

\* get_field(field_name, default)
get_field(field_name, default) ==
    /\ cls # ""
    /\ ret' = Call("get_field", field_name, default, 0,
                   Returns(GetField(fields, field_name, default)))
    /\ UNCHANGED <<cls, fields, created_date, last_modified, clock>>

\* a bulk write that stamps the template only when the dict holds a key
set_multiple_fields_if_any(field_dict) ==
    /\ cls # ""
    /\ Cardinality(DictKeys(fields) \cup DictKeys(field_dict)) <= MaxStored
    /\ fields' = DictUpdate(fields, field_dict)
    /\ last_modified' = IF field_dict = EmptyDict THEN last_modified ELSE clock
    /\ ret' = Call("set_multiple_fields", "", None, clock, Returns(None))
    /\ UNCHANGED <<cls, created_date, clock>>

\* set_multiple_fields(field_dict)
set_multiple_fields(field_dict) ==
    /\ cls # ""
    /\ Cardinality(DictKeys(fields) \cup DictKeys(field_dict)) <= MaxStored
    /\ fields' = DictUpdate(fields, field_dict)
    /\ last_modified' = clock
    /\ ret' = Call("set_multiple_fields", "", None, clock, Returns(None))
    /\ UNCHANGED <<cls, created_date, clock>>

\* validate()
validate ==
    /\ cls # ""
    /\ ret' = Call("validate", "", None, 0, Validate(cls, fields))
    /\ UNCHANGED <<cls, fields, created_date, last_modified, clock>>

\* a reset that stamps the template and keeps the fields
clear_stamps_only ==
    /\ cls # ""
    /\ last_modified' = clock
    /\ ret' = Call("clear", "", None, clock, Returns(None))
    /\ UNCHANGED <<cls, fields, created_date, clock>>

\* a reset that makes the template new: it stamps created_date too
clear_restamps_created ==
    /\ cls # ""
    /\ fields' = EmptyDict
    /\ created_date' = clock
    /\ last_modified' = clock
    /\ ret' = Call("clear", "", None, clock, Returns(None))
    /\ UNCHANGED <<cls, clock>>

\* clear()
clear ==
    /\ cls # ""
    /\ fields' = EmptyDict
    /\ last_modified' = clock
    /\ ret' = Call("clear", "", None, clock, Returns(None))
    /\ UNCHANGED <<cls, created_date, clock>>

\* export_to_dict()
export_to_dict ==
    /\ cls # ""
    /\ ret' = Call("export_to_dict", "", None, 0,
                   Returns(ExportToDict(cls, fields, created_date,
                                        last_modified)))
    /\ UNCHANGED <<cls, fields, created_date, last_modified, clock>>

\* a renderer that stamps the note with last_modified
format_note_last_modified ==
    /\ cls # ""
    /\ ret' = Call("format_note", "", None, clock,
                   Returns(FormatNote(cls, fields, last_modified)))
    /\ UNCHANGED <<cls, fields, created_date, last_modified, clock>>

\* format_note()
format_note ==
    /\ cls # ""
    /\ ret' = Call("format_note", "", None, clock,
                   Returns(FormatNote(cls, fields, clock)))
    /\ UNCHANGED <<cls, fields, created_date, last_modified, clock>>

\* the calls on one template; the caller keeps no exported dict
Next ==
    \/ Tick /\ UNCHANGED snap
    \/ \E t \in TypeInputs : create_template(t) /\ UNCHANGED snap
    \/ \E n \in FieldInputs(cls), v \in Values :
          set_field(n, v) /\ UNCHANGED snap
    \/ \E n \in FieldInputs(cls), d \in Defaults :
          get_field(n, d) /\ UNCHANGED snap
    \/ \E m \in BulkInputs(cls) : set_multiple_fields(m) /\ UNCHANGED snap
    \/ validate /\ UNCHANGED snap
    \/ clear /\ UNCHANGED snap
    \/ export_to_dict /\ UNCHANGED snap
    \/ format_note /\ UNCHANGED snap

Spec == Init /\ [][Next]_vars

----------------------------------------------------------------------------
(* The validator and the renderers applied to one template per field       *)
(* state: the empty template, and the template with every field set to a   *)
(* string or to a list, each with one field removed or set to each value   *)

\* every field the class declares, and a name it does not declare
AllFields(c) ==
    get_required_fields(c) \o get_optional_fields(c) \o << "custom_note" >>

Bases == {"empty", "strings", "lists"}

\* the dict of a template of class c built on base b, with field n set to
\* x (None: not set at all)
RenderDict(c, b, n, x) ==
    LET val(m) == IF m = n THEN x
                  ELSE IF b = "empty" THEN None
                  ELSE IF b = "strings" THEN Str("Jane Smith")
                  ELSE List(Items(MaxItems))
        stored(m) == val(m) # None
        names == SelectSeq(AllFields(c), stored)
    IN  [i \in 1..Len(names) |-> [k |-> names[i], v |-> val(names[i])]]

\* a template constructed at time 0 and filled by one set_multiple_fields
RenderInit ==
    \E c \in Classes, b \in Bases :
      \E i \in 1..Len(AllFields(c)), x \in AllValues \cup {None} :
        /\ cls = c
        /\ fields = RenderDict(c, b, AllFields(c)[i], x)
        /\ created_date = 0
        /\ last_modified = 0
        /\ clock \in 0..MaxClock
        /\ ret = Call("set_multiple_fields", "", None, 0, Returns(None))
        /\ snap = NoSnapshot

RenderNext ==
    \/ validate /\ UNCHANGED snap
    \/ format_note /\ UNCHANGED snap

SpecRender == RenderInit /\ [][RenderNext]_vars

----------------------------------------------------------------------------
(* One template and a caller that keeps the dict of an export_to_dict()    *)
(* call. A Python dict is an object: a change made to it in place is seen  *)
(* through every reference to it. snap.alias tells whether the 'fields'    *)
(* of the dict the caller holds is the object self.fields refers to.       *)

\* del d[k]
DictDel(d, k) ==
    LET other(e) == e.k # k
    IN  SelectSeq(d, other)

\* an export whose 'fields' is self.fields itself
SnapshotOfStore(c, f, created, modified) ==
    [ held |-> TRUE, alias |-> TRUE,
      value |-> [ExportToDict(c, f, created, modified) EXCEPT !.fields = f] ]

\* the dict export_to_dict() hands to the caller: 'fields' is
\* self.fields.copy(), a new object
Snapshot(c, f, created, modified) ==
    [ held |-> TRUE, alias |-> FALSE,
      value |-> ExportToDict(c, f, created, modified) ]

\* the dict the caller holds after self.fields was changed in place to f
Through(s, f) ==
    IF s.held /\ s.alias THEN [s EXCEPT !.value.fields = f] ELSE s

\* the dict the caller holds after self.fields was bound to a new dict
Rebound(s) == [s EXCEPT !.alias = FALSE]

\* field names, values and dicts passed by the caller that keeps an export
SnapshotNames == {"patient_name", "custom_note"}
SnapshotValues == {Str(""), List(Items(MaxItems))}
SnapshotBulk ==
    { EmptyDict,
      << [k |-> "patient_name", v |-> Str("Jane Smith")] >>,
      << [k |-> "custom_note", v |-> List(Items(MaxItems))],
         [k |-> "patient_name", v |-> Str("Jane Smith")] >> }
\* create_template('handoff'), as example_export() has it
SnapshotTypes == { << "h", "a", "n", "d", "o", "f", "f" >> }

\* data = template.export_to_dict(), kept by the caller
take_snapshot ==
    /\ export_to_dict
    /\ snap' = Snapshot(cls, fields, created_date, last_modified)

\* data['fields'][k] = v, by the caller
snapshot_assign(k, v) ==
    /\ snap.held
    /\ snap' = [snap EXCEPT !.value.fields = DictSet(@, k, v)]
    /\ fields' = IF snap.alias THEN DictSet(fields, k, v) ELSE fields
    /\ UNCHANGED <<cls, created_date, last_modified, clock, ret>>

\* del data['fields'][k], by the caller
snapshot_delete(k) ==
    /\ snap.held
    /\ DictHas(snap.value.fields, k)
    /\ snap' = [snap EXCEPT !.value.fields = DictDel(@, k)]
    /\ fields' = IF snap.alias THEN DictDel(fields, k) ELSE fields
    /\ UNCHANGED <<cls, created_date, last_modified, clock, ret>>

SnapshotNext ==
    \/ Tick /\ UNCHANGED snap
    \/ \E t \in SnapshotTypes : create_template(t) /\ UNCHANGED snap
    \/ \E n \in SnapshotNames, v \in SnapshotValues :
          set_field(n, v) /\ snap' = Through(snap, fields')
    \/ \E m \in SnapshotBulk :
          set_multiple_fields(m) /\ snap' = Through(snap, fields')
    \/ clear /\ snap' = Rebound(snap)
    \/ validate /\ UNCHANGED snap
    \/ format_note /\ UNCHANGED snap
    \/ take_snapshot
    \/ \E k \in SnapshotNames : snapshot_assign(k, Str("edited"))
    \/ \E k \in SnapshotNames : snapshot_delete(k)

SpecSnapshot == Init /\ [][SnapshotNext]_vars

----------------------------------------------------------------------------
(* Where format_note writes each declared field: a labelled line, or a     *)
(* titled section                                                          *)

Slot(name, kind, label) == [name |-> name, kind |-> kind, label |-> label]

ConsultSlots ==
    << Slot("patient_name", "line", "Name"),
      Slot("patient_mrn", "line", "MRN"),
      Slot("patient_dob", "line", "DOB"),
      Slot("age", "line", "Age"),
      Slot("sex", "line", "Sex"),
      Slot("date_of_consult", "line", "Date of Consult"),
      Slot("consulting_service", "line", "Consulting Service"),
      Slot("referring_provider", "line", "Referring Provider"),
      Slot("reason_for_consult", "section", "REASON FOR CONSULT"),
      Slot("history_of_present_illness", "section",
           "HISTORY OF PRESENT ILLNESS"),
      Slot("past_medical_history", "section", "PAST MEDICAL HISTORY"),
      Slot("past_surgical_history", "section", "PAST SURGICAL HISTORY"),
      Slot("medications", "section", "MEDICATIONS"),
      Slot("allergies", "section", "ALLERGIES"),
      Slot("social_history", "section", "SOCIAL HISTORY"),
      Slot("family_history", "section", "FAMILY HISTORY"),
      Slot("review_of_systems", "section", "REVIEW OF SYSTEMS"),
      Slot("physical_exam", "section", "PHYSICAL EXAMINATION"),
      Slot("labs", "section", "LABORATORY DATA"),
      Slot("imaging", "section", "IMAGING"),
      Slot("other_studies", "section", "OTHER STUDIES"),
      Slot("assessment", "section", "ASSESSMENT"),
      Slot("differential_diagnosis", "section", "DIFFERENTIAL DIAGNOSIS"),
      Slot("recommendations", "section", "RECOMMENDATIONS"),
      Slot("plan", "section", "PLAN"),
      Slot("follow_up", "section", "FOLLOW-UP"),
      Slot("consulting_physician", "line", "Consulting Physician"),
      Slot("attending_physician", "line", "Attending Physician") >>

HandoffSlots ==
    << Slot("patient_name", "line", "Patient"),
      Slot("patient_mrn", "line", "MRN"),
      Slot("patient_location", "line", "Location"),
      Slot("age", "line", "Age"),
      Slot("sex", "line", "Sex"),
      Slot("admission_date", "line", "Admission Date"),
      Slot("hospital_day", "line", "Hospital Day"),
      Slot("code_status", "line", "Code Status"),
      Slot("handoff_from", "line", "From"),
      Slot("handoff_to", "line", "To"),
      Slot("primary_diagnosis", "section", "PRIMARY DIAGNOSIS"),
      Slot("brief_history", "section", "BRIEF HISTORY"),
      Slot("past_medical_history", "section", "PAST MEDICAL HISTORY"),
      Slot("allergies", "section", "ALLERGIES"),
      Slot("active_issues", "section", "ACTIVE ISSUES"),
      Slot("vital_signs", "section", "VITAL SIGNS"),
      Slot("key_labs", "section", "KEY LABS"),
      Slot("key_imaging", "section", "KEY IMAGING"),
      Slot("current_medications", "section", "CURRENT MEDICATIONS"),
      Slot("iv_fluids", "section", "IV FLUIDS"),
      Slot("diet", "section", "DIET"),
      Slot("activity", "section", "ACTIVITY"),
      Slot("lines_tubes_drains", "section", "LINES/TUBES/DRAINS"),
      Slot("pending_studies", "section", "PENDING STUDIES"),
      Slot("pending_consults", "section", "PENDING CONSULTS"),
      Slot("to_do_list", "section", "TO-DO LIST"),
      Slot("if_then_scenarios", "section", "IF-THEN SCENARIOS"),
      Slot("anticipated_discharge_date", "section",
           "ANTICIPATED DISCHARGE DATE"),
      Slot("discharge_planning", "section", "DISCHARGE PLANNING"),
      Slot("family_communication", "section", "FAMILY COMMUNICATION") >>

OperativeSlots ==
    << Slot("patient_name", "line", "Name"),
      Slot("patient_mrn", "line", "MRN"),
      Slot("patient_dob", "line", "DOB"),
      Slot("age", "line", "Age"),
      Slot("sex", "line", "Sex"),
      Slot("date_of_surgery", "line", "Date of Surgery"),
      Slot("start_time", "line", "Start Time"),
      Slot("end_time", "line", "End Time"),
      Slot("total_time", "line", "Total Time"),
      Slot("surgeon", "line", "Surgeon"),
      Slot("assistant_surgeon", "line", "Assistant Surgeon"),
      Slot("attending_surgeon", "line", "Attending Surgeon"),
      Slot("anesthesiologist", "line", "Anesthesiologist"),
      Slot("anesthesia_type", "line", "Anesthesia Type"),
      Slot("nurses", "line", "Nursing Staff"),
      Slot("preoperative_diagnosis", "section", "PREOPERATIVE DIAGNOSIS"),
      Slot("postoperative_diagnosis", "section", "POSTOPERATIVE DIAGNOSIS"),
      Slot("procedure_performed", "section", "PROCEDURE(S) PERFORMED"),
      Slot("indication", "section", "INDICATION"),
      Slot("operative_findings", "section", "OPERATIVE FINDINGS"),
      Slot("description_of_procedure", "section", "DESCRIPTION OF PROCEDURE"),
      Slot("estimated_blood_loss", "line", "Estimated Blood Loss"),
      Slot("ivf_given", "line", "IV Fluids Given"),
      Slot("urine_output", "line", "Urine Output"),
      Slot("specimens", "section", "SPECIMENS"),
      Slot("pathology", "section", "PATHOLOGY"),
      Slot("drains", "section", "DRAINS"),
      Slot("implants", "section", "IMPLANTS"),
      Slot("counts_correct", "section", "COUNTS"),
      Slot("complications", "section", "COMPLICATIONS"),
      Slot("disposition", "section", "DISPOSITION"),
      Slot("condition", "section", "CONDITION"),
      Slot("follow_up_plan", "section", "FOLLOW-UP PLAN"),
      Slot("attending_surgeon", "line", "Attending") >>

\* the slots of the class, in the order format_note writes them
SlotSeq(c) ==
    IF c = ConsultNoteTemplate THEN ConsultSlots
    ELSE IF c = EpicHandoffTemplate THEN HandoffSlots
    ELSE OperativeSlots

Range(seq) == {seq[i] : i \in 1..Len(seq)}

Slots(c) == Range(SlotSeq(c))

\* the sections that render a list as bullets and a string as text
ListSlotNames(c) ==
    IF c = ConsultNoteTemplate
    THEN {"medications", "differential_diagnosis", "recommendations", "plan"}
    ELSE IF c = EpicHandoffTemplate
    THEN {"active_issues", "current_medications", "lines_tubes_drains",
          "pending_studies", "pending_consults", "to_do_list",
          "if_then_scenarios"}
    ELSE {"procedure_performed"}

RequiredSlots(c) == {sl \in Slots(c) : sl.name \in Range(get_required_fields(c))}
OptionalSlots(c) == {sl \in Slots(c) : sl.name \in Range(get_optional_fields(c))}

\* the first line of a slot: its label or its title
SlotHead(sl) ==
    IF sl.kind = "line" THEN sl.label \o ": " ELSE sl.label \o ":"

\* the places of the note where the slot starts
SlotStarts(note, sl) == {i \in 1..Len(note) : note[i].lit = SlotHead(sl)}

\* the slot shows the text: on its line, or as the one line under its title
SlotShows(note, sl, text) ==
    \E i \in SlotStarts(note, sl) :
        IF sl.kind = "line"
        THEN note[i].val = text
        ELSE /\ note[i].val = ""
             /\ i + 2 <= Len(note)
             /\ note[i + 1] = [lit |-> "", val |-> text]
             /\ note[i + 2] = Blank

\* the value of the field is absent from the store, or stored and falsy
Absent(f, name) == ~DictHas(f, name)
Falsy(f, name) == DictHas(f, name) /\ ~Truthy(DictItem(f, name))

----------------------------------------------------------------------------
(* Claims on validate() and format_note(), checked under SpecRender *)

\* C1: validate() returns (ok, missing) where missing is exactly the
\* required fields, in declaration order, that are absent from the store or
\* stored with a falsy value, and ok is true iff missing is empty; a Handoff
\* template with only patient_name = "Jane Smith" returns (false,
\* [patient_mrn, patient_location, primary_diagnosis, active_issues]).
C1_ValidateReportsMissing ==
    ret.op = "validate" =>
        LET isMissing(n) == Absent(fields, n) \/ Falsy(fields, n)
            expected == SelectSeq(get_required_fields(cls), isMissing)
        IN  /\ ret.raised = ""
            /\ ret.value[2] = expected
            /\ ret.value[1] = (expected = <<>>)
            /\ ( /\ cls = EpicHandoffTemplate
                 /\ DictEq(fields, << [k |-> "patient_name",
                                       v |-> Str("Jane Smith")] >>) )
               => ret.value = << FALSE, << "patient_mrn", "patient_location",
                                           "primary_diagnosis",
                                           "active_issues" >> >>

\* the Handoff template with only patient_name set has been validated
C1_Witness ==
    /\ ret.op = "validate"
    /\ cls = EpicHandoffTemplate
    /\ DictEq(fields, << [k |-> "patient_name", v |-> Str("Jane Smith")] >>)
    /\ ret.value[1] = FALSE
    /\ Len(ret.value[2]) = 4

\* C3: a required field that is absent from the store when format_note() is
\* called shows the placeholder [NOT PROVIDED] in its slot (its labelled
\* line or under its section title), the required list sections included.
C3_AbsentRequiredShowsPlaceholder ==
    ret.op = "format_note" =>
        \A sl \in RequiredSlots(cls) :
            Absent(fields, sl.name) => SlotShows(ret.value, sl, NotProvided)

\* an Operative report rendered with its surgeon stored and its
\* procedure_performed absent
C3_Witness ==
    /\ ret.op = "format_note"
    /\ cls = OperativeReportTemplate
    /\ DictHas(fields, "surgeon")
    /\ Absent(fields, "procedure_performed")
    /\ \E i \in 1..Len(ret.value) :
          /\ ret.value[i] = Lit("PROCEDURE(S) PERFORMED:")
          /\ ret.value[i + 1].val = NotProvided

\* C4: a required field that is stored with an empty value (empty string
\* or empty list) shows the placeholder [NOT PROVIDED] as an absent one
\* does, so every field validate() reports missing shows the placeholder.
C4_EmptyRequiredShowsPlaceholder ==
    ret.op = "format_note" =>
        \A sl \in RequiredSlots(cls) :
            (Absent(fields, sl.name) \/ Falsy(fields, sl.name))
                => SlotShows(ret.value, sl, NotProvided)

\* C5: an optional field is written (its labelled line or its titled
\* section) if and only if it is stored with a non-empty value; otherwise
\* neither its label nor its title is in the note.
C5_OptionalShownIffNonEmpty ==
    ret.op = "format_note" =>
        \A sl \in OptionalSlots(cls) :
            LET v == IF DictHas(fields, sl.name)
                     THEN DictItem(fields, sl.name) ELSE None
            IN  IF v.t = "none" \/ v = Str("") \/ v = List(<<>>)
                THEN SlotStarts(ret.value, sl) = {}
                ELSE /\ Cardinality(SlotStarts(ret.value, sl)) = 1
                     /\ v.t = "str" => SlotShows(ret.value, sl, v.s)

\* a Handoff note rendered with a stored age and an empty stored sex
C5_Witness ==
    /\ ret.op = "format_note"
    /\ cls = EpicHandoffTemplate
    /\ DictHas(fields, "age") /\ DictItem(fields, "age") = Str("Jane Smith")
    /\ DictHas(fields, "sex") /\ DictItem(fields, "sex") = Str("")
    /\ \E i \in 1..Len(ret.value) : ret.value[i].lit = "Age: "
    /\ ~\E i \in 1..Len(ret.value) : ret.value[i].lit = "Sex: "

\* C6: in a list slot a stored list of N >= 1 items is written as the title
\* line followed by exactly N lines "- item" in list order, and a stored
\* non-empty string as the title line followed by the string, no bullet; a
\* fully populated Consult template with recommendations = ["A", "B"]
\* writes "RECOMMENDATIONS:" followed by exactly "- A" and "- B".
C6_ListSlotRendering ==
    ret.op = "format_note" =>
        LET note == ret.value
        IN  /\ \A sl \in Slots(cls) :
                 (sl.name \in ListSlotNames(cls) /\ DictHas(fields, sl.name)) =>
                    LET v == DictItem(fields, sl.name)
                        N == Len(v.l)
                    IN  /\ (v.t = "list" /\ N >= 1) =>
                              \E i \in 1..Len(note) :
                                 /\ LineText(note[i]) = sl.label \o ":"
                                 /\ i + N + 1 <= Len(note)
                                 /\ \A j \in 1..N :
                                       LineText(note[i + j]) = "- " \o v.l[j]
                                 /\ LineText(note[i + N + 1]) = ""
                        /\ (v.t = "str" /\ v.s # "") =>
                              SlotShows(note, sl, v.s)
            /\ ( /\ cls = ConsultNoteTemplate
                 /\ \A sl \in Slots(cls) :
                       DictHas(fields, sl.name)
                       /\ Truthy(DictItem(fields, sl.name))
                 /\ DictItem(fields, "recommendations") = List(<<"A", "B">>) )
               => \E i \in 1..Len(note) :
                     /\ i + 3 <= Len(note)
                     /\ LineText(note[i]) = "RECOMMENDATIONS:"
                     /\ LineText(note[i + 1]) = "- A"
                     /\ LineText(note[i + 2]) = "- B"
                     /\ LineText(note[i + 3]) = ""

\* the fully populated Consult template with recommendations = ["A", "B"]
\* and a string in the plan slot has been rendered
C6_Witness ==
    /\ ret.op = "format_note"
    /\ cls = ConsultNoteTemplate
    /\ \A sl \in Slots(cls) :
          DictHas(fields, sl.name) /\ Truthy(DictItem(fields, sl.name))
    /\ DictItem(fields, "recommendations") = List(<<"A", "B">>)
    /\ DictItem(fields, "plan") = Str("Jane Smith")
    /\ \E i \in 1..Len(ret.value) : LineText(ret.value[i]) = "- B"

\* the title line of the note of the class
NoteTitle(c) ==
    IF c = ConsultNoteTemplate THEN "CONSULTATION NOTE"
    ELSE IF c = EpicHandoffTemplate THEN "HANDOFF NOTE"
    ELSE "OPERATIVE REPORT"

\* the lines that carry the render time
StampLines(note) ==
    {i \in 1..Len(note) : note[i].lit \in {"Date: ", "Handoff Date/Time: "}}

\* the title lines of the sections of the note
SectionStarts(c, note) ==
    UNION {SlotStarts(note, sl) : sl \in {x \in Slots(c) : x.kind = "section"}}

\* the note starts with the banner: rule, title, rule, blank line
HasBanner(c, note) ==
    /\ Len(note) >= 4
    /\ note[1] = Lit(Repeat("=", 80))
    /\ note[2] = Lit(NoteTitle(c))
    /\ note[3] = Lit(Repeat("=", 80))
    /\ note[4] = Blank

\* C8 as stated: every note starts with the banner and ends with a footer
\* that holds the line with the render time, after all content sections.
C8_TimestampInFooter ==
    ret.op = "format_note" =>
        /\ HasBanner(cls, ret.value)
        /\ \E ts \in StampLines(ret.value) :
              /\ ret.value[ts].val = Strftime(ret.now)
              /\ \A j \in SectionStarts(cls, ret.value) : j < ts

\* C8 as amended: every note starts with the banner and holds exactly one
\* line with the render time. The Consult and Operative notes end with a
\* footer (blank line, rule of "-", signature lines) whose last line is
\* "Date: <render time>", after all content sections; the Handoff note
\* writes "Handoff Date/Time: <render time>" in its header block, before
\* all content sections, and ends with a rule of "=".
C8_BannerAndTimestamp ==
    ret.op = "format_note" =>
        LET note == ret.value
            n == Len(note)
            sections == SectionStarts(cls, note)
        IN  /\ HasBanner(cls, note)
            /\ Cardinality(StampLines(note)) = 1
            /\ \A ts \in StampLines(note) :
                  /\ note[ts].val = Strftime(ret.now)
                  /\ IF cls = EpicHandoffTemplate
                     THEN /\ note[ts].lit = "Handoff Date/Time: "
                          /\ \A j \in sections : ts < j
                          /\ note[n] = Lit(Repeat("=", 80))
                     ELSE /\ note[ts].lit = "Date: "
                          /\ ts = n
                          /\ \E r \in 5..(n - 1) :
                                /\ note[r] = Lit(Repeat("-", 80))
                                /\ note[r - 1] = Blank
                                /\ \A j \in sections : j < r

\* a Handoff note rendered at a time after its last write, with sections
\* under its header block
C8_Witness ==
    /\ ret.op = "format_note"
    /\ cls = EpicHandoffTemplate
    /\ ret.now > last_modified
    /\ \E ts \in StampLines(ret.value), j \in SectionStarts(cls, ret.value) :
          ts < j

----------------------------------------------------------------------------
(* Claims on the calls of one template, checked under Spec *)

\* C2: get_field(n, d) called immediately after set_field(n, v) returns
\* exactly v, for every name, value and default; the default is returned
\* only when n is absent from the store, never for a stored empty value.
C2_SetThenGetRoundTrips ==
    [][ ret'.op = "get_field" =>
          /\ (ret.op = "set_field" /\ ret.name = ret'.name)
                => (ret'.raised = "" /\ ret'.value = ret.arg)
          /\ DictHas(fields, ret'.name)
                => ret'.value = DictItem(fields, ret'.name)
          /\ ~DictHas(fields, ret'.name) => ret'.value = ret'.arg ]_vars

\* get_field with a default has returned the stored empty string
C2_Witness ==
    /\ ret.op = "get_field"
    /\ ret.arg = Str("dflt")
    /\ ret.value = Str("")
    /\ DictHas(fields, ret.name)

\* the dict with the entries of f in the order the class declares them:
\* the same for every dict that holds the same mapping
Canonical(c, f) ==
    LET stored(m) == DictHas(f, m)
        names == SelectSeq(AllFields(c), stored)
    IN  [i \in 1..Len(names) |-> [k |-> names[i], v |-> DictItem(f, names[i])]]

\* the place in SlotSeq(c) of the slot that starts with the line, 0 if none
SlotOf(c, line) ==
    IF \E a \in 1..Len(SlotSeq(c)) : SlotHead(SlotSeq(c)[a]) = line.lit
    THEN CHOOSE a \in 1..Len(SlotSeq(c)) :
            /\ SlotHead(SlotSeq(c)[a]) = line.lit
            /\ \A b \in 1..(a - 1) : SlotHead(SlotSeq(c)[b]) # line.lit
    ELSE 0

\* C7: the note is a function of the class, the field mapping and the
\* clock at the call only: it is the note of the mapping in one fixed key
\* order at that clock value, whatever calls built the dict and whatever
\* created_date and last_modified are; the slots come in one fixed order.
C7_RenderDependsOnMappingAndClock ==
    ret.op = "format_note" =>
        /\ ret.value = FormatNote(cls, Canonical(cls, fields), ret.now)
        /\ LET note == ret.value
               at == [i \in 1..Len(note) |-> SlotOf(cls, note[i])]
               first == {i \in 1..Len(note) :
                           /\ at[i] # 0
                           /\ \A j \in 1..(i - 1) : at[j] # at[i]}
           IN  \A i, j \in first : i < j => at[i] < at[j]

\* a note rendered from a dict whose insertion order is not the declared
\* order, at a clock value later than the last write
C7_Witness ==
    /\ ret.op = "format_note"
    /\ Len(fields) = 2
    /\ fields # Canonical(cls, fields)
    /\ DictEq(fields, Canonical(cls, fields))
    /\ ret.now > last_modified

\* the spellings of the three type names among the inputs
ConsultSpellings == {"consult", "Consult"}
HandoffSpellings == {"handoff", "HANDOFF"}
OperativeSpellings == {"operative", "OperativE"}

\* the lower-case form of the other inputs
LowerSpelling(name) == IF name = "Foo" THEN "foo" ELSE name

\* C9: create_template(name) returns a new, empty template of the matching
\* class when the lower-cased name is consult, handoff or operative, and
\* for every other name creates no template and fails with an unknown-type
\* error whose message lists consult, handoff, operative.
C9_CreateTemplate ==
    ret.op = "create_template" =>
        IF ret.name \in ConsultSpellings \cup HandoffSpellings
                            \cup OperativeSpellings
        THEN /\ ret.raised = ""
             /\ cls = IF ret.name \in ConsultSpellings THEN ConsultNoteTemplate
                      ELSE IF ret.name \in HandoffSpellings
                      THEN EpicHandoffTemplate
                      ELSE OperativeReportTemplate
             /\ fields = EmptyDict
        ELSE /\ ret.raised = "ValueError"
             /\ cls = ""
             /\ ret.value = "Unknown template type: "
                            \o LowerSpelling(ret.name)
                            \o ". Valid types are: consult, handoff, operative"

\* create_template("Foo") has failed
C9_Witness ==
    /\ ret.op = "create_template"
    /\ ret.name = "Foo"
    /\ ret.raised = "ValueError"
    /\ cls = ""

\* C10: the only call that fails is create_template with an unrecognized
\* name: no set_field, set_multiple_fields, get_field, validate, clear,
\* export_to_dict or format_note call raises, whatever strings and lists
\* are stored in whatever slots.
C10_OnlyConstructionFails ==
    ret.raised # "" =>
        /\ ret.op = "create_template"
        /\ ret.raised = "ValueError"
        /\ ret.name \notin ConsultSpellings \cup HandoffSpellings
                              \cup OperativeSpellings

\* validate has returned on a template with a list in the patient_name
\* line and a string in the list section, its other required fields absent
C10_Witness ==
    /\ ret.op = "validate"
    /\ ret.raised = ""
    /\ DictHas(fields, "patient_name")
    /\ DictItem(fields, "patient_name").t = "list"
    /\ DictHas(fields, ListField(cls))
    /\ DictItem(fields, ListField(cls)).t = "str"
    /\ ~DictHas(fields, "patient_mrn")

----------------------------------------------------------------------------
(* Claims on the store and its timestamps, checked under Spec *)

\* the calls that write the fields, and the calls that only read
Writes == {"set_field", "set_multiple_fields", "clear"}
Reads == {"get_field", "validate", "export_to_dict", "format_note"}

\* the step leaves the record of the last call as it is
SameCall ==
    /\ ret'.op = ret.op
    /\ ret'.name = ret.name
    /\ ret'.now = ret.now
    /\ ret'.arg = ret.arg
    /\ ret'.raised = ret.raised
    /\ ret'.value = ret.value

\* C11: after set_field, after set_multiple_fields (one stamp per call,
\* for any number of keys, zero included) and after clear, last_modified
\* is the clock value the call read, also when the write left the stored
\* mapping as it was.
C11_WritesStampLastModified ==
    ret.op \in Writes =>
        /\ last_modified = ret.now
        /\ ret.now <= clock

\* set_multiple_fields({}) on an empty store, after the time of creation
C11_Witness ==
    /\ ret.op = "set_multiple_fields"
    /\ fields = EmptyDict
    /\ ret.now > created_date
    /\ last_modified = ret.now

\* C12: clear() empties the mapping and keeps created_date; right after
\* it get_field(n, d) returns d for every name, validate() returns
\* (False, every required field in declared order) and export_to_dict()
\* holds no field.
C12_ClearEmptiesTheStore ==
    [][ /\ (ret'.op = "clear" /\ clock' = clock) =>
              /\ fields' = EmptyDict
              /\ created_date' = created_date
              /\ \A n \in FieldInputs(cls), d \in Defaults :
                    GetField(fields', n, d) = d
              /\ Validate(cls, fields')
                    = Returns(<<FALSE, get_required_fields(cls)>>)
              /\ ExportToDict(cls, fields', created_date',
                              last_modified').fields = EmptyDict
        /\ (ret.op = "clear" /\ ret'.op = "get_field") =>
              ret'.value = ret'.arg
        /\ (ret.op = "clear" /\ ret'.op = "validate") =>
              ret'.value = <<FALSE, get_required_fields(cls)>>
        /\ (ret.op = "clear" /\ ret'.op = "export_to_dict") =>
              /\ ret'.value.fields = EmptyDict
              /\ ret'.value.created_date = Isoformat(created_date) ]_vars

\* clear() has run after the time of creation
C12_Witness ==
    /\ ret.op = "clear"
    /\ fields = EmptyDict
    /\ created_date < last_modified

\* C14: a template is created with no field, and no step but clear()
\* removes a stored name: after every other step the stored names are the
\* ones stored before, or more.
C14_NoDeletionButClear ==
    [][ /\ (cls = "" /\ cls' # "") => fields' = EmptyDict
        /\ ret'.op # "clear" => DictKeys(fields) \subseteq DictKeys(fields')
      ]_vars

\* set_field has overwritten the first of two stored fields
C14_Witness ==
    /\ ret.op = "set_field"
    /\ Len(fields) = 2
    /\ ret.name = fields[1].k
    /\ fields[1].v = ret.arg

----------------------------------------------------------------------------
(* Claims on the exported dict and on bulk writes, checked under           *)
(* SpecSnapshot                                                            *)

\* C13: export_to_dict() returns the class name, the two timestamps and a
\* copy of the fields equal to the store at the call. No later set_field,
\* set_multiple_fields or clear changes a dict exported earlier, and
\* assigning or deleting keys of the exported 'fields' leaves the store,
\* the result of validate() and the note as they were.
C13_ExportIsAnIndependentCopy ==
    [][ /\ (ret'.op = "export_to_dict" /\ ~SameCall) =>
              /\ snap'.held
              /\ snap'.value = ret'.value
              /\ ret'.value.template_type = cls
              /\ ret'.value.created_date = Isoformat(created_date)
              /\ ret'.value.last_modified = Isoformat(last_modified)
              /\ ret'.value.fields = fields
        /\ (ret'.op \in Writes /\ (~SameCall \/ fields' # fields)) =>
              snap'.value = snap.value
        /\ snap'.value.fields # snap.value.fields =>
              /\ fields' = fields
              /\ Validate(cls', fields') = Validate(cls, fields)
              /\ FormatNote(cls', fields', clock')
                    = FormatNote(cls, fields, clock) ]_vars

\* the caller has assigned patient_name in an exported dict and the
\* template has stored custom_note at a later time: the store holds no
\* patient_name and the exported dict no custom_note
C13_Witness ==
    /\ snap.held
    /\ DictHas(snap.value.fields, "patient_name")
    /\ DictItem(snap.value.fields, "patient_name") = Str("edited")
    /\ ~DictHas(snap.value.fields, "custom_note")
    /\ snap.value.last_modified # Isoformat(last_modified)
    /\ DictHas(fields, "custom_note")
    /\ ~DictHas(fields, "patient_name")

RECURSIVE SetEach(_, _)
\* the dict after set_field(k, v) for each entry [k, v] of the sequence
SetEach(f, entries) ==
    IF entries = <<>> THEN f
    ELSE SetEach(DictSet(f, entries[1].k, entries[1].v), Tail(entries))

\* the entries of dict m in every order
Orders(m) ==
    LET perms == {p \in [1..Len(m) -> 1..Len(m)] :
                    \A i, j \in 1..Len(m) : p[i] = p[j] => i = j}
    IN  {[i \in 1..Len(m) |-> m[p[i]]] : p \in perms}

----------------------------------------------------------------------------
(* Claims on the reads and on names the class does not declare, checked    *)
(* under Spec                                                              *)

\* C16: get_field, validate, export_to_dict and format_note leave the
\* fields, created_date and last_modified as they were, so no number of
\* them between two writes changes what a later validate, export or
\* render returns.
C16_ReadsArePure ==
    [][ ret'.op \in Reads =>
          /\ fields' = fields
          /\ created_date' = created_date
          /\ last_modified' = last_modified
          /\ Validate(cls', fields') = Validate(cls, fields)
          /\ ExportToDict(cls', fields', created_date', last_modified')
                = ExportToDict(cls, fields, created_date, last_modified)
      ]_vars

\* get_field has returned its default for a name that is not stored, some
\* time after the last write, and the name is still not stored
C16_Witness ==
    /\ ret.op = "get_field"
    /\ ret.arg = Str("dflt")
    /\ ret.value = Str("dflt")
    /\ ~DictHas(fields, ret.name)
    /\ Len(fields) = 1
    /\ last_modified < clock

\* C18: created_date <= last_modified in every state of a template;
\* created_date keeps the value construction gave it through every
\* operation, clear included, and last_modified never decreases.
C18_TimestampsAreOrdered ==
    /\ [](cls # "" => created_date <= last_modified)
    /\ [][cls # "" => /\ created_date' = created_date
                      /\ last_modified' >= last_modified]_vars

\* set_field has stamped a template at a time after its creation
C18_Witness ==
    /\ ret.op = "set_field"
    /\ Len(fields) = 1
    /\ created_date < last_modified
    /\ last_modified = clock

\* the names the class declares
DeclaredNames(c) == Range(get_required_fields(c) \o get_optional_fields(c))

\* the entries of f under the names the class declares
Declared(c, f) ==
    LET known(e) == e.k \in DeclaredNames(c)
    IN  SelectSeq(f, known)

\* C19: a name the class does not declare is stored by set_field,
\* returned by get_field and part of export_to_dict(), and the results of
\* validate() and format_note() are those of the store without it.
C19_UndeclaredNamesAreStoredAndIgnored ==
    /\ (ret.op = "set_field" /\ ret.name \notin DeclaredNames(cls)) =>
          /\ ret.raised = ""
          /\ DictHas(fields, ret.name)
          /\ DictItem(fields, ret.name) = ret.arg
    /\ (ret.op = "get_field" /\ DictHas(fields, ret.name)) =>
          ret.value = DictItem(fields, ret.name)
    /\ ret.op = "set_multiple_fields" => ret.raised = ""
    /\ ret.op = "export_to_dict" => ret.value.fields = fields
    /\ ret.op = "validate" =>
          ret.value = Validate(cls, Declared(cls, fields)).value
    /\ ret.op = "format_note" =>
          ret.value = FormatNote(cls, Declared(cls, fields), ret.now)

\* validate() has run with a non-empty custom_note stored
C19_Witness ==
    /\ ret.op = "validate"
    /\ DictHas(fields, "custom_note")
    /\ Truthy(DictItem(fields, "custom_note"))
    /\ "custom_note" \notin DeclaredNames(cls)

----------------------------------------------------------------------------
(* Validation against rendering, checked under SpecRender *)

\* the lines of the note whose formatted value is the placeholder (the
\* literal text of a line never holds it, and a stored value is formatted
\* into a line as it is)
PlaceholderLines(note) == {i \in 1..Len(note) : note[i].val = NotProvided}

\* C17: when validate() returns (True, []) and no stored value is the
\* placeholder text, the note holds no [NOT PROVIDED].
C17_ValidNoteHasNoPlaceholder ==
    ( /\ ret.op = "format_note"
      /\ Validate(cls, fields) = Returns(<<TRUE, <<>>>>)
      /\ \A k \in DictKeys(fields) :
            PyStr(DictItem(fields, k)) # NotProvided )
    => PlaceholderLines(ret.value) = {}

\* the note of a valid operative report whose optional fields are stored
\* but for one
C17_Witness ==
    /\ ret.op = "format_note"
    /\ cls = OperativeReportTemplate
    /\ Validate(cls, fields) = Returns(<<TRUE, <<>>>>)
    /\ ~DictHas(fields, "attending_surgeon")
    /\ DictHas(fields, "assistant_surgeon")
    /\ PlaceholderLines(ret.value) = {}

====
